---------------------------- MODULE Spec2Model ----------------------------
(***************************************************************************)
(* Payload parsers of the inference gateway:                               *)
(*   pkg/epp/framework/plugins/payloadprocess/vllm_grpc.go  (VLLMGrpcParser)*)
(*   pkg/epp/framework/plugins/payloadprocess/openai.go     (OpenAIParser)  *)
(*                                                                         *)
(* Four specifications share the variables below:                         *)
(*   SpecSampling  calls of ParseSamplingParams on JSON bodies,            *)
(*   Spec          calls of VLLMGrpcParser.ParseRequest,                   *)
(*   SpecResp      calls of ParseResponse / ParseStreamResponse of both    *)
(*                 parsers,                                                *)
(*   SpecConc      concurrent calls on one VLLMGrpcParser, step by step.   *)
(*                                                                         *)
(* Numbers.  TLC's integers are 32-bit signed, so a uint32 is kept as two  *)
(* 16-bit limbs [hi, lo] (value hi*2^16 + lo) and a Go int (64 bit) or an  *)
(* integer JSON literal as sign and magnitude [neg, hi, lo] with hi not    *)
(* limited to 16 bits (magnitude hi*2^16 + lo < 2^47).  A float32 is       *)
(* [neg, mant, exp], value mant * 2^exp, with 2^23 <= mant < 2^24 unless   *)
(* it is zero.                                                             *)
(***************************************************************************)
EXTENDS Integers, Sequences, FiniteSets, TLC

VARIABLES
    pc,         \* "idle" | "done": the sequential caller's position
    op,         \* the operation of the last call
    input,      \* the arguments of the last call
    result,     \* what the last call returned
    uuidCount,  \* how many identifiers uuid.NewString has handed out
    generated,  \* the identifiers returned by ExtractRequestID from uuid.NewString
    parser,     \* the parser instance the calls are made on
    calls,      \* SpecConc: each in-flight call's position, input and locals
    reqs        \* SpecConc: the vllm.GenerateRequest objects under construction

vars == <<pc, op, input, result, uuidCount, generated, parser, calls, reqs>>

Nil == [nil |-> TRUE]

-----------------------------------------------------------------------------
(* Fixed-width arithmetic *)

LimbBase == 2^16

U32(hi, lo) == [hi |-> hi, lo |-> lo]

GoInt(neg, hi, lo) == [neg |-> neg, hi |-> hi, lo |-> lo]

\* A conversion that clamps to 0 .. 2^32-1 instead of truncating.
ToUint32Saturating(i) ==
    IF i.neg THEN U32(0, 0)
    ELSE IF i.hi >= LimbBase THEN U32(LimbBase - 1, LimbBase - 1)
    ELSE U32(i.hi, i.lo)

\* uint32(x) of a Go int x: the low 32 bits of its two's complement.
ToUint32(i) ==
    LET h == i.hi % LimbBase
    IN  IF ~i.neg
        THEN U32(h, i.lo)
        ELSE U32((LimbBase - h - (IF i.lo = 0 THEN 0 ELSE 1)) % LimbBase,
                 (LimbBase - i.lo) % LimbBase)

\* reflect.Value.OverflowInt for a 32-bit target: the value is outside
\* -2^31 .. 2^31-1.
OverflowInt32(i) ==
    IF i.neg
    THEN ~(i.hi < 2^15 \/ (i.hi = 2^15 /\ i.lo = 0))
    ELSE ~(i.hi < 2^15)

\* a + b on uint32: wraps modulo 2^32.
AddUint32(a, b) ==
    LET l == a.lo + b.lo
        h == a.hi + b.hi + (l \div LimbBase)
    IN  U32(h % LimbBase, l % LimbBase)

\* int(x) of a uint32 x (int is 64 bit): the same value.
IntOfUint32(u) == GoInt(FALSE, u.hi, u.lo)

\* a + b on non-negative Go ints below 2^46: no wrap.
AddInt(a, b) ==
    LET l == a.lo + b.lo
    IN  GoInt(FALSE, a.hi + b.hi + (l \div LimbBase), l % LimbBase)

BitLen(n) == CHOOSE b \in 1..24 : 2^(b-1) <= n /\ n < 2^b

F32(neg, mant, exp) == [neg |-> neg, mant |-> mant, exp |-> exp]
F32Zero == F32(FALSE, 0, 0)
F32One == F32(FALSE, 2^23, -23)

\* Round q (with remainder rem out of den, and sticky bits below) half to even.
RoundEven(q, rem, den, sticky) ==
    IF 2 * rem > den \/ (2 * rem = den /\ (sticky \/ q % 2 = 1)) THEN q + 1 ELSE q

Normal(neg, m, e) == IF m = 2^24 THEN F32(neg, 2^23, e + 1) ELSE F32(neg, m, e)

-----------------------------------------------------------------------------
(* JSON values, as json.Unmarshal sees them *)

JNull == [t |-> "null"]
JBool(b) == [t |-> "bool", b |-> b]
JString(s) == [t |-> "string", s |-> s]
JObject == [t |-> "object"]
JArray(a) == [t |-> "array", a |-> a]
\* A number literal: [-] digits [. tenths] [e exp10], the digits' value
\* being hi*2^16 + lo.
JNumber(neg, hi, lo, dot, tenths, exp10) ==
    [t |-> "number", neg |-> neg, hi |-> hi, lo |-> lo,
     dot |-> dot, tenths |-> tenths, exp10 |-> exp10]
JInt(neg, hi, lo) == JNumber(neg, hi, lo, FALSE, 0, 0)
\* The key is not in the object.
Absent == [t |-> "absent"]

\* strconv.ParseInt(s, 10, 64): fails on a fraction or an exponent; every
\* literal of the model is below 2^47, inside int64.
ParseIntOk(v) == ~v.dot /\ v.exp10 = 0
ParseInt(v) == GoInt(v.neg, v.hi, v.lo)

\* strconv.ParseFloat(s, 32) fails with ErrRange above the largest float32
\* (about 3.4e38).
ParseFloat32Ok(v) == ~(v.exp10 >= 39 /\ (v.hi > 0 \/ v.lo > 0 \/ v.tenths > 0))

\* strconv.ParseFloat(s, 32): the nearest float32, ties to even.  Defined for
\* literals with exp10 = 0 (or value 0) and hi < 2^24.
ParseFloat32(v) ==
    IF v.hi = 0 /\ v.lo = 0 /\ v.tenths = 0 THEN F32Zero
    ELSE IF v.hi < 2^8
    THEN LET n == (v.hi * LimbBase + v.lo) * 10 + v.tenths
             k == CHOOSE j \in 0..27 : 2^23 * 10 <= n * 2^j /\ n * 2^j < 2^24 * 10
             q == (n * 2^k) \div 10
             r == (n * 2^k) % 10
         IN  Normal(v.neg, RoundEven(q, r, 10, FALSE), 0 - k)
    ELSE LET s == BitLen(v.hi) - 8
             q == v.hi * 2^(16 - s) + (v.lo \div 2^s)
             r == v.lo % 2^s
         IN  Normal(v.neg, RoundEven(q, r, 2^s, v.tenths > 0), s)

\* Whether the float32 nearest to the literal is the literal's own value.
Float32Exact(v) ==
    IF v.hi = 0 /\ v.lo = 0 /\ v.tenths = 0 THEN TRUE
    ELSE IF v.hi < 2^8
    THEN LET n == (v.hi * LimbBase + v.lo) * 10 + v.tenths
             k == CHOOSE j \in 0..27 : 2^23 * 10 <= n * 2^j /\ n * 2^j < 2^24 * 10
         IN  (n * 2^k) % 10 = 0
    ELSE v.lo % 2^(BitLen(v.hi) - 8) = 0 /\ v.tenths = 0

-----------------------------------------------------------------------------
(* Errors, by the name the specification's taxonomy gives them *)

ErrNone == "nil"
\* "error unmarshalling sampling params: ..." / "error unmarshalling ..."
MalformedInput == "MalformedInput"
\* "Not implemented. vLLM gRPC parser expects a chat completions request"
UnsupportedInput == "UnsupportedInput"
\* "streaming is not yet implemented for vLLM gRPC"
UnsupportedFeature == "UnsupportedFeature"
\* "unary response did not contain Complete block",
\* "unable to parse usage from stream chunk / stream response"
IncompleteResponse == "IncompleteResponse"
\* an error the external body extraction returned
ExtractionError == "ExtractionError"
\* an error the external usage extraction returned
UsageError == "UsageError"

-----------------------------------------------------------------------------
(* json.Unmarshal(body, &params) into the samplingParams struct *)

Keys == {"max_tokens", "temperature", "top_p", "frequency_penalty",
         "presence_penalty", "n", "seed", "stream", "stop"}

NoValue(v) == v.t = "absent" \/ v.t = "null"

\* A field of type *int.
DecodeIntPtr(v) ==
    IF NoValue(v) THEN [err |-> FALSE, val |-> Nil]
    ELSE IF v.t = "number" /\ ParseIntOk(v) THEN [err |-> FALSE, val |-> ParseInt(v)]
    ELSE [err |-> TRUE, val |-> Nil]

\* A field of type *int32.
DecodeInt32Ptr(v) ==
    IF NoValue(v) THEN [err |-> FALSE, val |-> Nil]
    ELSE IF v.t = "number" /\ ParseIntOk(v) /\ ~OverflowInt32(ParseInt(v))
    THEN [err |-> FALSE, val |-> ParseInt(v)]
    ELSE [err |-> TRUE, val |-> Nil]

\* A field of type *float32.
DecodeFloat32Ptr(v) ==
    IF NoValue(v) THEN [err |-> FALSE, val |-> Nil]
    ELSE IF v.t = "number" /\ ParseFloat32Ok(v)
    THEN [err |-> FALSE, val |-> ParseFloat32(v)]
    ELSE [err |-> TRUE, val |-> Nil]

\* A field of type bool.
DecodeBool(v) ==
    IF NoValue(v) THEN [err |-> FALSE, val |-> FALSE]
    ELSE IF v.t = "bool" THEN [err |-> FALSE, val |-> v.b]
    ELSE [err |-> TRUE, val |-> FALSE]

\* A field of type any: every JSON value decodes.
DecodeAny(v) == IF NoValue(v) THEN Nil ELSE v

\* The struct after json.Unmarshal, and whether it returned an error (a body
\* that is no JSON object, or a field of the wrong type or out of range).
Unmarshal(body) ==
    IF body.t # "object"
    THEN [err |-> TRUE]
    ELSE LET f == body.f
             mt == DecodeIntPtr(f["max_tokens"])
             te == DecodeFloat32Ptr(f["temperature"])
             tp == DecodeFloat32Ptr(f["top_p"])
             fp == DecodeFloat32Ptr(f["frequency_penalty"])
             pp == DecodeFloat32Ptr(f["presence_penalty"])
             nn == DecodeIntPtr(f["n"])
             sd == DecodeInt32Ptr(f["seed"])
             st == DecodeBool(f["stream"])
         IN  [err |-> mt.err \/ te.err \/ tp.err \/ fp.err \/ pp.err
                      \/ nn.err \/ sd.err \/ st.err,
              MaxTokens |-> mt.val, Temperature |-> te.val, TopP |-> tp.val,
              FrequencyPenalty |-> fp.val, PresencePenalty |-> pp.val,
              N |-> nn.val, Seed |-> sd.val, Stream |-> st.val,
              Stop |-> DecodeAny(f["stop"])]

-----------------------------------------------------------------------------
(* ParseSamplingParams *)

vllmMaxTokens == 1024

\* A presence test on the value instead of on the pointer: 0 counts as unset.
IsSetNonZero(p) == p # Nil /\ p # GoInt(FALSE, 0, 0) /\ p # F32Zero

\* if params.X != nil
IsSet(p) == p # Nil

\* A type switch that assigns instead of appending: the last string wins.
StopStringsLast(v) ==
    IF v = Nil THEN << >>
    ELSE IF v.t = "string" THEN << v.s >>
    ELSE IF v.t = "array"
    THEN LET keep == {i \in 1..Len(v.a) : v.a[i].t = "string"}
         IN  IF keep = {} THEN << >>
             ELSE << v.a[CHOOSE i \in keep : \A j \in keep : j <= i].s >>
    ELSE << >>

\* The type switch on params.Stop.
StopStrings(v) ==
    IF v = Nil THEN << >>
    ELSE IF v.t = "string" THEN << v.s >>
    ELSE IF v.t = "array"
    THEN LET keep == {i \in 1..Len(v.a) : v.a[i].t = "string"}
             \* the i-th kept index, in increasing order
             nth[k \in 1..Cardinality(keep)] ==
                 CHOOSE i \in keep : Cardinality({j \in keep : j < i}) = k - 1
         IN  [k \in 1..Cardinality(keep) |-> v.a[nth[k]].s]
    ELSE << >>

ParseSamplingParams(body) ==
    LET params == Unmarshal(body)
    IN  IF params.err
        THEN [sp |-> Nil, stream |-> FALSE, err |-> MalformedInput]
        ELSE [sp |-> [MaxTokens |-> IF IsSet(params.MaxTokens)
                                    THEN ToUint32(params.MaxTokens)
                                    ELSE U32(0, vllmMaxTokens),
                      Temperature |-> IF IsSet(params.Temperature)
                                      THEN params.Temperature ELSE Nil,
                      TopP |-> IF IsSet(params.TopP) THEN params.TopP ELSE F32One,
                      FrequencyPenalty |-> IF IsSet(params.FrequencyPenalty)
                                           THEN params.FrequencyPenalty ELSE F32Zero,
                      PresencePenalty |-> IF IsSet(params.PresencePenalty)
                                          THEN params.PresencePenalty ELSE F32Zero,
                      N |-> IF IsSet(params.N) THEN ToUint32(params.N) ELSE U32(0, 1),
                      Seed |-> IF IsSet(params.Seed) THEN params.Seed ELSE Nil,
                      Stop |-> StopStrings(params.Stop)],
              stream |-> params.Stream,
              err |-> ErrNone]

-----------------------------------------------------------------------------
(* The JSON values the bodies of the model are made of *)

MaxStopLen == 3

StopElems == {JString("STOP"), JString("END"), JInt(FALSE, 0, 5)}

Arrays == {JArray(a) : a \in UNION {[1..n -> StopElems] : n \in 0..MaxStopLen}}

Numbers ==
    { JInt(FALSE, 0, 0), JInt(FALSE, 0, 1), JInt(FALSE, 0, 2),
      JInt(FALSE, 0, 1024),
      JInt(FALSE, 256, 1),          \* 2^24 + 1
      JInt(FALSE, 32767, 65535),    \* 2^31 - 1
      JInt(FALSE, 32768, 0),        \* 2^31
      JInt(FALSE, 65536, 5),        \* 2^32 + 5
      JInt(TRUE, 0, 1),             \* -1
      JInt(TRUE, 32768, 0),         \* -2^31
      JNumber(FALSE, 0, 0, TRUE, 5, 0),   \* 0.5
      JNumber(FALSE, 0, 0, TRUE, 7, 0),   \* 0.7
      JNumber(FALSE, 0, 1, TRUE, 0, 0),   \* 1.0
      JNumber(FALSE, 0, 1, TRUE, 5, 0),   \* 1.5
      JNumber(FALSE, 0, 1, FALSE, 0, 40)  \* 1e40
    }

JsonValues ==
    {JNull, JBool(TRUE), JBool(FALSE), JString("STOP"), JString(""), JObject}
        \cup Numbers \cup Arrays

EmptyObject == [t |-> "object", f |-> [k \in Keys |-> Absent]]

\* The values a key is given: any of them for "stop"; for the other keys,
\* whose decoding rejects every array alike, two arrays stand for all.
ValuesOf(k) ==
    IF k = "stop" THEN JsonValues \cup {Absent}
    ELSE (JsonValues \ Arrays)
            \cup {JArray(<< >>), JArray(<<JString("STOP")>>), Absent}

\* A body with only keys the struct ignores (model, messages), and that body
\* with one or two of the sampling keys given a JSON value.
Body(k1, v1, k2, v2) ==
    [t |-> "object", f |-> [[EmptyObject.f EXCEPT ![k1] = v1] EXCEPT ![k2] = v2]]

\* Bytes that are not a JSON object.
MalformedBody == [t |-> "malformed"]

-----------------------------------------------------------------------------
(* The sequential caller *)

VLLMGrpcParserName == "vllm-grpc-parser"
ParserType == "parser"

\* NewVLLMGrpcParser
NewVLLMGrpcParser == [typedName |-> [Type |-> ParserType, Name |-> VLLMGrpcParserName]]

Init ==
    /\ pc = "idle"
    /\ op = "none"
    /\ input = Nil
    /\ result = Nil
    /\ uuidCount = 0
    /\ generated = {}
    /\ parser = NewVLLMGrpcParser
    /\ calls = << >>
    /\ reqs = << >>

\* The caller takes the result and is ready for the next call.
Return ==
    /\ pc = "done"
    /\ pc' = "idle"
    /\ op' = "none"
    /\ input' = Nil
    /\ result' = Nil
    /\ UNCHANGED <<uuidCount, generated, parser, calls, reqs>>

CallParseSamplingParams ==
    /\ pc = "idle"
    /\ \/ \E k1 \in Keys, k2 \in Keys :
            \E v1 \in ValuesOf(k1), v2 \in ValuesOf(k2) :
                /\ input' = Body(k1, v1, k2, v2)
                /\ result' = ParseSamplingParams(Body(k1, v1, k2, v2))
       \/ /\ input' = MalformedBody
          /\ result' = ParseSamplingParams(MalformedBody)
    /\ op' = "ParseSamplingParams"
    /\ pc' = "done"
    /\ UNCHANGED <<uuidCount, generated, parser, calls, reqs>>

NextSampling == CallParseSamplingParams \/ Return

SpecSampling == Init /\ [][NextSampling]_vars

TypeSampling ==
    op = "ParseSamplingParams" => result.err \in {ErrNone, MalformedInput}

-----------------------------------------------------------------------------
(* VLLMGrpcParser.ParseRequest *)

\* requtil.RequestIdHeaderKey
RequestIdHeaderKey == "x-request-id"

\* The identifiers uuid.NewString hands out, in order: each one is new.
UuidNames == <<"uuid-1", "uuid-2", "uuid-3", "uuid-4", "uuid-5", "uuid-6">>

\* uuid.NewString(), when n identifiers were handed out before.
NewString(n) == UuidNames[n + 1]

\* headers is a map: a function from the keys it holds to their values.
ExtractRequestID(headers, fresh) ==
    IF RequestIdHeaderKey \in DOMAIN headers
    THEN headers[RequestIdHeaderKey]
    ELSE fresh

\* Whether ExtractRequestID calls uuid.NewString.
GeneratesId(headers) == RequestIdHeaderKey \notin DOMAIN headers

\* msg.Content.PlainText(): a message's content is kept as its plain text, a
\* sequence of characters.
PlainText(content) == content

\* The loop over Messages appending to the strings.Builder: built[i] is the
\* builder's content after i messages.
WriteAll(msgs) ==
    LET built[i \in 0..Len(msgs)] ==
            IF i = 0 THEN << >>
            ELSE built[i - 1] \o PlainText(msgs[i].Content) \o << "\n" >>
    IN  built[Len(msgs)]

\* A join that puts the newline between the messages only.
JoinAll(msgs) ==
    LET built[i \in 0..Len(msgs)] ==
            IF i = 0 THEN << >>
            ELSE IF i = 1 THEN PlainText(msgs[i].Content)
            ELSE built[i - 1] \o << "\n" >> \o PlainText(msgs[i].Content)
    IN  built[Len(msgs)]

ExtractCombinedPromptJoin(extractedBody) ==
    IF extractedBody.ChatCompletions = Nil
    THEN [prompt |-> << >>, err |-> UnsupportedInput]
    ELSE [prompt |-> JoinAll(extractedBody.ChatCompletions.Messages),
          err |-> ErrNone]

ExtractCombinedPrompt(extractedBody) ==
    IF extractedBody.ChatCompletions = Nil
    THEN [prompt |-> << >>, err |-> UnsupportedInput]
    ELSE [prompt |-> WriteAll(extractedBody.ChatCompletions.Messages),
          err |-> ErrNone]

\* No check of the stream flag.
StreamCheckSkipped(stream) == ErrNone

\* if stream { return nil, errors.New("streaming is not yet implemented ...") }
StreamCheck(stream) == IF stream THEN UnsupportedFeature ELSE ErrNone

\* fresh is the identifier uuid.NewString returns if it is called.
TranscodeJsonToGrpc(p, headers, body, extractedBody, fresh) ==
    LET RequestId == ExtractRequestID(headers, fresh)
        prompt == ExtractCombinedPrompt(extractedBody)
        sampling == ParseSamplingParams(body)
    IN  IF prompt.err # ErrNone THEN [req |-> Nil, err |-> prompt.err]
        ELSE IF sampling.err # ErrNone THEN [req |-> Nil, err |-> sampling.err]
        ELSE IF StreamCheck(sampling.stream) # ErrNone
        THEN [req |-> Nil, err |-> StreamCheck(sampling.stream)]
        ELSE [req |-> [RequestId |-> RequestId,
                       Input |-> [Text |-> prompt.prompt],
                       SamplingParams |-> sampling.sp,
                       Stream |-> sampling.stream],
              err |-> ErrNone]

\* proto.Marshal: the bytes, from which proto.Unmarshal gives the message back.
ProtoMarshal(m) == [proto |-> m]

\* The rest of ParseRequest once TranscodeJsonToGrpc has returned vllmReq: its
\* error is returned as it is, else the message is marshalled and stored in
\* the extracted body.
MarshalRequest(extracted, vllmReq) ==
    IF vllmReq.err # ErrNone
    THEN [body |-> Nil, err |-> vllmReq.err]
    ELSE [body |-> [ChatCompletions |-> extracted.ChatCompletions,
                    ParsedBody |-> ProtoMarshal(vllmReq.req)],
          err |-> ErrNone]

\* extracted is what requtil.ExtractRequestBody(body, headers) returned: an
\* error, or the canonical body.
ParseRequest(p, headers, body, extracted, fresh) ==
    IF extracted.t = "error"
    THEN [body |-> Nil, err |-> ExtractionError]
    ELSE MarshalRequest(extracted,
                        TranscodeJsonToGrpc(p, headers, body, extracted, fresh))

MaxUuids == 2
MaxMessages == 2

Contents == { << >>, << "H", "i" >> }

Message(c) == [Role |-> "user", Content |-> c]

Chats == UNION {[1..n -> {Message(c) : c \in Contents}] : n \in 0..MaxMessages}

\* What requtil.ExtractRequestBody returns: an error, a body without a chat
\* completions view (another request shape), or one with messages.
Extractions ==
    {[t |-> "error"], [t |-> "body", ChatCompletions |-> Nil]}
        \cup {[t |-> "body", ChatCompletions |-> [Messages |-> m]] : m \in Chats}

HeaderMaps ==
    { << >>,
      [k \in {RequestIdHeaderKey} |-> ""],
      [k \in {RequestIdHeaderKey} |-> "req-1"] }

\* The values given to "stream": a number or a string stands for every value
\* that is no boolean.
StreamValues ==
    {Absent, JNull, JBool(TRUE), JBool(FALSE), JInt(FALSE, 0, 1), JString("STOP")}

CallParseRequest ==
    /\ pc = "idle"
    /\ \E headers \in HeaderMaps, extracted \in Extractions :
         \E k \in Keys, sv \in StreamValues :
           \E v \in ValuesOf(k) :
             LET body == Body(k, v, "stream", sv)
                 calledUuid == extracted.t = "body" /\ GeneratesId(headers)
             IN  /\ calledUuid => uuidCount < MaxUuids
                 /\ input' = [headers |-> headers, body |-> body,
                              extracted |-> extracted]
                 /\ result' = ParseRequest(parser, headers, body, extracted,
                                           NewString(uuidCount))
                 /\ uuidCount' = IF calledUuid THEN uuidCount + 1 ELSE uuidCount
                 /\ generated' = IF calledUuid
                                 THEN generated \cup {NewString(uuidCount)}
                                 ELSE generated
    /\ op' = "ParseRequest"
    /\ pc' = "done"
    /\ UNCHANGED <<parser, calls, reqs>>

Next == CallParseRequest \/ Return

Spec == Init /\ [][Next]_vars

-----------------------------------------------------------------------------
(* ParseResponse and ParseStreamResponse of both parsers *)

\* resp.GetComplete(): the terminal section, when the response's oneof
\* holds it.
GetComplete(resp) ==
    IF resp.Response # Nil /\ resp.Response.kind = "complete"
    THEN resp.Response ELSE Nil

\* resp.GetChunk(): the incremental section, when the oneof holds it.
GetChunk(resp) ==
    IF resp.Response # Nil /\ resp.Response.kind = "chunk"
    THEN resp.Response ELSE Nil

\* The requestcontrol.Usage built from a section's two uint32 counts.
UsageOf(section) ==
    [PromptTokens |-> IntOfUint32(section.PromptTokens),
     CompletionTokens |-> IntOfUint32(section.CompletionTokens),
     TotalTokens |-> IntOfUint32(AddUint32(section.PromptTokens,
                                           section.CompletionTokens))]

\* A unary ParseResponse that falls back to the incremental section.
VLLMGrpcParser_ParseResponseAnySection(p, body) ==
    IF body.t = "malformed" THEN [resp |-> Nil, err |-> MalformedInput]
    ELSE IF body.Response = Nil THEN [resp |-> Nil, err |-> IncompleteResponse]
    ELSE [resp |-> [Usage |-> UsageOf(body.Response)], err |-> ErrNone]

\* body is the bytes: not a GenerateResponse, or the message proto.Unmarshal
\* decodes them to.
VLLMGrpcParser_ParseResponse(p, body) ==
    IF body.t = "malformed" THEN [resp |-> Nil, err |-> MalformedInput]
    ELSE LET complete == GetComplete(body)
         IN  IF complete = Nil THEN [resp |-> Nil, err |-> IncompleteResponse]
             ELSE [resp |-> [Usage |-> UsageOf(complete)], err |-> ErrNone]

VLLMGrpcParser_ParseStreamResponse(p, chunk) ==
    IF chunk.t = "malformed" THEN [resp |-> Nil, err |-> MalformedInput]
    ELSE IF GetComplete(chunk) # Nil
    THEN [resp |-> [Usage |-> UsageOf(GetComplete(chunk))], err |-> ErrNone]
    ELSE IF GetChunk(chunk) # Nil
    THEN [resp |-> [Usage |-> UsageOf(GetChunk(chunk))], err |-> ErrNone]
    ELSE [resp |-> Nil, err |-> IncompleteResponse]

\* extracted is what resputil.ExtractUsage(body) returned: (usage, err).
OpenAIParser_ParseResponse(p, body, extracted) ==
    IF extracted.err # ErrNone \/ extracted.usage = Nil
    THEN [resp |-> Nil, err |-> extracted.err]
    ELSE [resp |-> [Usage |-> extracted.usage], err |-> ErrNone]

\* responseBody is what resputil.ExtractUsageStreaming(string(chunk)) returned.
OpenAIParser_ParseStreamResponse(p, chunk, responseBody) ==
    IF responseBody.Usage = Nil
    THEN [resp |-> Nil, err |-> IncompleteResponse]
    ELSE [resp |-> [Usage |-> responseBody.Usage], err |-> ErrNone]

\* The 16-bit halves the token counts of the model are made of.
TokenLimbs == {0, 10, 20, 32768, 65535}

\* prompt_tokens and completion_tokens on the wire: uint32.
WireTokenCounts == {U32(h, l) : h \in TokenLimbs, l \in TokenLimbs}

Section(kind, prompt, completion) ==
    [kind |-> kind, PromptTokens |-> prompt, CompletionTokens |-> completion]

\* The usage records the external JSON usage extraction hands over.
JsonUsages ==
    {[PromptTokens |-> GoInt(FALSE, 0, 10), CompletionTokens |-> GoInt(FALSE, 0, 20),
      TotalTokens |-> GoInt(FALSE, 0, 30)],
     [PromptTokens |-> GoInt(FALSE, 0, 0), CompletionTokens |-> GoInt(FALSE, 0, 0),
      TotalTokens |-> GoInt(FALSE, 0, 0)]}

\* resputil.ExtractUsage: a usage or none, with or without an error.
ExtractUsageOutcomes ==
    {[usage |-> u, err |-> e] : u \in JsonUsages \cup {Nil}, e \in {ErrNone, UsageError}}

\* resputil.ExtractUsageStreaming: a response body with a usage or without.
ExtractUsageStreamingOutcomes == {[Usage |-> u] : u \in JsonUsages \cup {Nil}}

OpenAIParserName == "openai-parser"

\* NewOpenAIParser
NewOpenAIParser == [typedName |-> [Type |-> ParserType, Name |-> OpenAIParserName]]

CallVLLMParseResponse ==
    /\ pc = "idle"
    /\ \/ \E kind \in {"complete", "chunk"}, pt \in WireTokenCounts, ct \in WireTokenCounts :
            /\ input' = [t |-> "message", Response |-> Section(kind, pt, ct)]
            /\ result' = VLLMGrpcParser_ParseResponse(parser, input')
       \/ \E body \in {[t |-> "malformed"], [t |-> "message", Response |-> Nil]} :
            /\ input' = body
            /\ result' = VLLMGrpcParser_ParseResponse(parser, body)
    /\ op' = "VLLMGrpcParser.ParseResponse"
    /\ pc' = "done"
    /\ UNCHANGED <<uuidCount, generated, parser, calls, reqs>>

CallVLLMParseStreamResponse ==
    /\ pc = "idle"
    /\ \/ \E kind \in {"complete", "chunk"}, pt \in WireTokenCounts, ct \in WireTokenCounts :
            /\ input' = [t |-> "message", Response |-> Section(kind, pt, ct)]
            /\ result' = VLLMGrpcParser_ParseStreamResponse(parser, input')
       \/ \E chunk \in {[t |-> "malformed"], [t |-> "message", Response |-> Nil]} :
            /\ input' = chunk
            /\ result' = VLLMGrpcParser_ParseStreamResponse(parser, chunk)
    /\ op' = "VLLMGrpcParser.ParseStreamResponse"
    /\ pc' = "done"
    /\ UNCHANGED <<uuidCount, generated, parser, calls, reqs>>

CallOpenAIParseResponse ==
    /\ pc = "idle"
    /\ \E extracted \in ExtractUsageOutcomes :
         /\ input' = [extracted |-> extracted]
         /\ result' = OpenAIParser_ParseResponse(NewOpenAIParser, input', extracted)
    /\ op' = "OpenAIParser.ParseResponse"
    /\ pc' = "done"
    /\ UNCHANGED <<uuidCount, generated, parser, calls, reqs>>

CallOpenAIParseStreamResponse ==
    /\ pc = "idle"
    /\ \E responseBody \in ExtractUsageStreamingOutcomes :
         /\ input' = [responseBody |-> responseBody]
         /\ result' = OpenAIParser_ParseStreamResponse(NewOpenAIParser, input',
                                                       responseBody)
    /\ op' = "OpenAIParser.ParseStreamResponse"
    /\ pc' = "done"
    /\ UNCHANGED <<uuidCount, generated, parser, calls, reqs>>

NextResp ==
    \/ CallVLLMParseResponse
    \/ CallVLLMParseStreamResponse
    \/ CallOpenAIParseResponse
    \/ CallOpenAIParseStreamResponse
    \/ Return

SpecResp == Init /\ [][NextResp]_vars

-----------------------------------------------------------------------------
(* Concurrent calls on one parser, statement by statement *)

\* bodyMap after json.Unmarshal(body, &bodyMap), and whether it failed.
\* extracted is what requtil.ExtractRequestBody returned.
OpenAIParser_ParseRequest(p, headers, body, extracted) ==
    IF body.t # "object" THEN [body |-> Nil, err |-> MalformedInput]
    ELSE IF extracted.t = "error" THEN [body |-> Nil, err |-> ExtractionError]
    ELSE [body |-> [ChatCompletions |-> extracted.ChatCompletions,
                    ParsedBody |-> body.f],
          err |-> ErrNone]

MaxCalls == 2

CallIds == 1..MaxCalls

\* One object for every call, kept by the parser.
NewRequestShared(c) == 1

\* vllmReq := &vllm.GenerateRequest{}: the object call c allocates, its own.
NewRequest(c) == c

ConcHeaders == { << >>, [k \in {RequestIdHeaderKey} |-> "req-1"] }

ConcExtractions ==
    {[t |-> "body", ChatCompletions |-> Nil],
     [t |-> "body", ChatCompletions |-> [Messages |-> << Message(<< "H", "i" >>) >>]]}

ConcBodies == {EmptyObject, Body("stream", JBool(TRUE), "stream", JBool(TRUE))}

ConcChunks ==
    {[t |-> "message", Response |-> Nil],
     [t |-> "message", Response |-> Section("chunk", U32(0, 10), U32(0, 20))]}

IdleCall == [pc |-> "idle", op |-> "none", input |-> Nil, fresh |-> "",
             stream |-> FALSE, local |-> Nil, result |-> Nil]

EmptyRequest == [RequestId |-> "", Input |-> Nil, SamplingParams |-> Nil,
                 Stream |-> FALSE]

InitConc ==
    /\ pc = "idle"
    /\ op = "none"
    /\ input = Nil
    /\ result = Nil
    /\ uuidCount = 0
    /\ generated = {}
    /\ parser = NewVLLMGrpcParser
    /\ calls = [c \in CallIds |-> IdleCall]
    /\ reqs = [c \in CallIds |-> EmptyRequest]

Finish(c, res) ==
    calls' = [calls EXCEPT ![c].pc = "done", ![c].result = res]

\* A goroutine calls VLLMGrpcParser.ParseRequest.
BeginParseRequest(c) ==
    /\ calls[c].pc = "idle"
    /\ \E headers \in ConcHeaders, extracted \in ConcExtractions, body \in ConcBodies :
         calls' = [calls EXCEPT ![c].pc = "extract",
                                ![c].op = "VLLMGrpcParser.ParseRequest",
                                ![c].input = [headers |-> headers, body |-> body,
                                              extracted |-> extracted]]
    /\ UNCHANGED <<pc, op, input, result, uuidCount, generated, parser, reqs>>

\* extractedBody, err := requtil.ExtractRequestBody(body, headers)
StepExtract(c) ==
    /\ calls[c].pc = "extract"
    /\ IF calls[c].input.extracted.t = "error"
       THEN Finish(c, [body |-> Nil, err |-> ExtractionError])
       ELSE calls' = [calls EXCEPT ![c].pc = "new"]
    /\ UNCHANGED <<pc, op, input, result, uuidCount, generated, parser, reqs>>

\* vllmReq := &vllm.GenerateRequest{}; vllmReq.RequestId = ExtractRequestID(headers)
StepNew(c) ==
    /\ calls[c].pc = "new"
    /\ LET headers == calls[c].input.headers
           fresh == NewString(uuidCount)
       IN  /\ reqs' = [reqs EXCEPT ![NewRequest(c)] =
                          [EmptyRequest EXCEPT
                              !.RequestId = ExtractRequestID(headers, fresh)]]
           /\ uuidCount' = IF GeneratesId(headers) THEN uuidCount + 1 ELSE uuidCount
           /\ generated' = IF GeneratesId(headers)
                           THEN generated \cup {fresh} ELSE generated
           /\ calls' = [calls EXCEPT ![c].pc = "prompt",
                           ![c].fresh = IF GeneratesId(headers) THEN fresh ELSE ""]
    /\ UNCHANGED <<pc, op, input, result, parser>>

\* prompt, err := ExtractCombinedPrompt(extractedBody); vllmReq.Input = ...
StepPrompt(c) ==
    /\ calls[c].pc = "prompt"
    /\ LET prompt == ExtractCombinedPrompt(calls[c].input.extracted)
       IN  IF prompt.err # ErrNone
           THEN /\ Finish(c, [body |-> Nil, err |-> prompt.err])
                /\ UNCHANGED reqs
           ELSE /\ reqs' = [reqs EXCEPT ![NewRequest(c)].Input =
                                             [Text |-> prompt.prompt]]
                /\ calls' = [calls EXCEPT ![c].pc = "sampling"]
    /\ UNCHANGED <<pc, op, input, result, uuidCount, generated, parser>>

\* samplingParams, stream, err := ParseSamplingParams(body); vllmReq.SamplingParams = ...
StepSampling(c) ==
    /\ calls[c].pc = "sampling"
    /\ LET sampling == ParseSamplingParams(calls[c].input.body)
       IN  IF sampling.err # ErrNone
           THEN /\ Finish(c, [body |-> Nil, err |-> sampling.err])
                /\ UNCHANGED reqs
           ELSE /\ reqs' = [reqs EXCEPT ![NewRequest(c)].SamplingParams = sampling.sp]
                /\ calls' = [calls EXCEPT ![c].pc = "stream",
                                          ![c].stream = sampling.stream]
    /\ UNCHANGED <<pc, op, input, result, uuidCount, generated, parser>>

\* if stream { return nil, errors.New(...) }; vllmReq.Stream = stream
StepStream(c) ==
    /\ calls[c].pc = "stream"
    /\ IF StreamCheck(calls[c].stream) # ErrNone
       THEN /\ Finish(c, [body |-> Nil, err |-> StreamCheck(calls[c].stream)])
            /\ UNCHANGED reqs
       ELSE /\ reqs' = [reqs EXCEPT ![NewRequest(c)].Stream = calls[c].stream]
            /\ calls' = [calls EXCEPT ![c].pc = "marshal"]
    /\ UNCHANGED <<pc, op, input, result, uuidCount, generated, parser>>

\* protoBody, err := proto.Marshal(vllmReq); extractedBody.ParsedBody = protoBody
StepMarshal(c) ==
    /\ calls[c].pc = "marshal"
    /\ Finish(c, [body |-> [ChatCompletions |->
                                calls[c].input.extracted.ChatCompletions,
                            ParsedBody |-> ProtoMarshal(reqs[NewRequest(c)])],
                  err |-> ErrNone])
    /\ UNCHANGED <<pc, op, input, result, uuidCount, generated, parser, reqs>>

\* A goroutine calls VLLMGrpcParser.ParseStreamResponse.
BeginParseStreamResponse(c) ==
    /\ calls[c].pc = "idle"
    /\ \E chunk \in ConcChunks :
         calls' = [calls EXCEPT ![c].pc = "unmarshal",
                                ![c].op = "VLLMGrpcParser.ParseStreamResponse",
                                ![c].input = chunk]
    /\ UNCHANGED <<pc, op, input, result, uuidCount, generated, parser, reqs>>

\* resp := &vllm.GenerateResponse{}; proto.Unmarshal(chunk, resp)
StepUnmarshal(c) ==
    /\ calls[c].pc = "unmarshal"
    /\ IF calls[c].input.t = "malformed"
       THEN Finish(c, [resp |-> Nil, err |-> MalformedInput])
       ELSE calls' = [calls EXCEPT ![c].pc = "usage", ![c].local = calls[c].input]
    /\ UNCHANGED <<pc, op, input, result, uuidCount, generated, parser, reqs>>

\* The rest of ParseStreamResponse, on the call's own resp.
StepUsage(c) ==
    /\ calls[c].pc = "usage"
    /\ LET resp == calls[c].local
       IN  IF GetComplete(resp) # Nil
           THEN Finish(c, [resp |-> [Usage |-> UsageOf(GetComplete(resp))],
                           err |-> ErrNone])
           ELSE IF GetChunk(resp) # Nil
           THEN Finish(c, [resp |-> [Usage |-> UsageOf(GetChunk(resp))],
                           err |-> ErrNone])
           ELSE Finish(c, [resp |-> Nil, err |-> IncompleteResponse])
    /\ UNCHANGED <<pc, op, input, result, uuidCount, generated, parser, reqs>>

\* A goroutine calls OpenAIParser.ParseRequest.
BeginOpenAIParseRequest(c) ==
    /\ calls[c].pc = "idle"
    /\ \E body \in {EmptyObject, MalformedBody}, extracted \in ConcExtractions :
         calls' = [calls EXCEPT ![c].pc = "bodyMap",
                                ![c].op = "OpenAIParser.ParseRequest",
                                ![c].input = [headers |-> << >>, body |-> body,
                                              extracted |-> extracted]]
    /\ UNCHANGED <<pc, op, input, result, uuidCount, generated, parser, reqs>>

\* bodyMap := make(map[string]any); json.Unmarshal(body, &bodyMap)
StepBodyMap(c) ==
    /\ calls[c].pc = "bodyMap"
    /\ IF calls[c].input.body.t # "object"
       THEN Finish(c, [body |-> Nil, err |-> MalformedInput])
       ELSE calls' = [calls EXCEPT ![c].pc = "store",
                                   ![c].local = calls[c].input.body.f]
    /\ UNCHANGED <<pc, op, input, result, uuidCount, generated, parser, reqs>>

\* requtil.ExtractRequestBody; extractedBody.ParsedBody = bodyMap
StepStore(c) ==
    /\ calls[c].pc = "store"
    /\ IF calls[c].input.extracted.t = "error"
       THEN Finish(c, [body |-> Nil, err |-> ExtractionError])
       ELSE Finish(c, [body |-> [ChatCompletions |->
                                     calls[c].input.extracted.ChatCompletions,
                                 ParsedBody |-> calls[c].local],
                       err |-> ErrNone])
    /\ UNCHANGED <<pc, op, input, result, uuidCount, generated, parser, reqs>>

NextConc ==
    \E c \in CallIds :
        \/ BeginParseRequest(c)
        \/ StepExtract(c)
        \/ StepNew(c)
        \/ StepPrompt(c)
        \/ StepSampling(c)
        \/ StepStream(c)
        \/ StepMarshal(c)
        \/ BeginParseStreamResponse(c)
        \/ StepUnmarshal(c)
        \/ StepUsage(c)
        \/ BeginOpenAIParseRequest(c)
        \/ StepBodyMap(c)
        \/ StepStore(c)

SpecConc == InitConc /\ [][NextConc]_vars

-----------------------------------------------------------------------------
(* Claims about ParseSamplingParams, checked under SpecSampling *)

\* The last call was ParseSamplingParams on a JSON object and it succeeded.
Decoded ==
    op = "ParseSamplingParams" /\ input.t = "object" /\ result.err = ErrNone

\* u is the literal's own value.
IsValueOf(u, v) == ~v.neg /\ ~v.dot /\ v.exp10 = 0 /\ v.hi = u.hi /\ v.lo = u.lo

\* u is the integer literal v modulo 2^32.
IsLow32Of(u, v) ==
    IF v.neg
    THEN AddUint32(u, U32(v.hi % LimbBase, v.lo)) = U32(0, 0)
    ELSE u = U32(v.hi % LimbBase, v.lo)

DefaultSamplingParams ==
    [MaxTokens |-> U32(0, 1024), Temperature |-> Nil, TopP |-> F32One,
     FrequencyPenalty |-> F32Zero, PresencePenalty |-> F32Zero,
     N |-> U32(0, 1), Seed |-> Nil, Stop |-> << >>]

\* C5 as stated: after a successful decode every sampling field has its
\* default when its key is absent or null, and otherwise exactly the value
\* the body gives (the float32 or integer result is that very number).
C5_ExplicitValueExactly ==
    Decoded =>
        LET f == input.f
            sp == result.sp
        IN  /\ IF NoValue(f["max_tokens"]) THEN sp.MaxTokens = U32(0, 1024)
               ELSE IsValueOf(sp.MaxTokens, f["max_tokens"])
            /\ IF NoValue(f["n"]) THEN sp.N = U32(0, 1)
               ELSE IsValueOf(sp.N, f["n"])
            /\ IF NoValue(f["temperature"]) THEN sp.Temperature = Nil
               ELSE Float32Exact(f["temperature"])
            /\ IF NoValue(f["top_p"]) THEN sp.TopP = F32One
               ELSE Float32Exact(f["top_p"])
            /\ IF NoValue(f["frequency_penalty"]) THEN sp.FrequencyPenalty = F32Zero
               ELSE Float32Exact(f["frequency_penalty"])
            /\ IF NoValue(f["presence_penalty"]) THEN sp.PresencePenalty = F32Zero
               ELSE Float32Exact(f["presence_penalty"])
            /\ IF NoValue(f["seed"]) THEN sp.Seed = Nil
               ELSE sp.Seed = GoInt(f["seed"].neg, f["seed"].hi, f["seed"].lo)

\* C5 amended: after a successful decode every sampling field has its default
\* when its key is absent or null, and otherwise the explicit value converted
\* to the field's type: modulo 2^32 for max_tokens and n (the value itself
\* when it is in 0 .. 2^32-1, explicit 0 and 1024 included), the nearest
\* float32 for temperature, top_p and the penalties (explicit 0 and 1.0
\* included, temperature 0 being set, not unset), the value itself for seed;
\* the body with no sampling key yields exactly the defaults.
C5_DefaultsOrConvertedValue ==
    Decoded =>
        LET f == input.f
            sp == result.sp
        IN  /\ IF NoValue(f["max_tokens"]) THEN sp.MaxTokens = U32(0, 1024)
               ELSE /\ IsLow32Of(sp.MaxTokens, f["max_tokens"])
                    /\ (~f["max_tokens"].neg /\ f["max_tokens"].hi < LimbBase)
                          => IsValueOf(sp.MaxTokens, f["max_tokens"])
            /\ IF NoValue(f["n"]) THEN sp.N = U32(0, 1)
               ELSE /\ IsLow32Of(sp.N, f["n"])
                    /\ (~f["n"].neg /\ f["n"].hi < LimbBase) => IsValueOf(sp.N, f["n"])
            /\ IF NoValue(f["temperature"]) THEN sp.Temperature = Nil
               ELSE sp.Temperature = ParseFloat32(f["temperature"])
            /\ IF NoValue(f["top_p"]) THEN sp.TopP = F32One
               ELSE sp.TopP = ParseFloat32(f["top_p"])
            /\ IF NoValue(f["frequency_penalty"]) THEN sp.FrequencyPenalty = F32Zero
               ELSE sp.FrequencyPenalty = ParseFloat32(f["frequency_penalty"])
            /\ IF NoValue(f["presence_penalty"]) THEN sp.PresencePenalty = F32Zero
               ELSE sp.PresencePenalty = ParseFloat32(f["presence_penalty"])
            /\ IF NoValue(f["seed"]) THEN sp.Seed = Nil
               ELSE sp.Seed = GoInt(f["seed"].neg, f["seed"].hi, f["seed"].lo)
            /\ (\A k \in Keys : f[k] = Absent) =>
                  sp = DefaultSamplingParams /\ result.stream = FALSE

\* An explicit temperature 0 beside a null max_tokens: the first is set to 0,
\* the second defaulted.
C5_Witness ==
    /\ Decoded
    /\ input.f["temperature"] = JInt(FALSE, 0, 0)
    /\ input.f["max_tokens"] = JNull
    /\ result.sp.Temperature = F32Zero
    /\ result.sp.MaxTokens = U32(0, 1024)

\* The strings of a JSON array, in order.
RECURSIVE StringsOf(_)
StringsOf(a) ==
    IF a = << >> THEN << >>
    ELSE IF Head(a).t = "string" THEN << Head(a).s >> \o StringsOf(Tail(a))
    ELSE StringsOf(Tail(a))

\* C7: a string stop yields that one string, an array its string elements in
\* order without the others, an absent or null stop nothing; and whatever
\* stop is, the call fails only if it also fails without the stop key.
C7_StopShapes ==
    (op = "ParseSamplingParams" /\ input.t = "object") =>
        LET v == input.f["stop"]
            without == [input EXCEPT !.f["stop"] = Absent]
        IN  /\ result.err = ParseSamplingParams(without).err
            /\ result.err = ErrNone =>
                 result.sp.Stop =
                    CASE v.t = "string" -> << v.s >>
                      [] v.t = "array" -> StringsOf(v.a)
                      [] OTHER -> << >>

\* ["STOP", 5, "END"] was decoded to <<"STOP", "END">>.
C7_Witness ==
    /\ Decoded
    /\ input.f["stop"] = JArray(<<JString("STOP"), JInt(FALSE, 0, 5), JString("END")>>)
    /\ result.sp.Stop = <<"STOP", "END">>

IntKeys == {"max_tokens", "n", "seed"}

\* The body decodes once its integer-typed keys are removed.
RestDecodes(body) ==
    ParseSamplingParams([body EXCEPT !.f["max_tokens"] = Absent,
                                     !.f["n"] = Absent,
                                     !.f["seed"] = Absent]).err = ErrNone

\* C10 as stated: no JSON number given for max_tokens, n or seed makes the
\* call fail.
C10_NoNumberRejected ==
    (/\ op = "ParseSamplingParams" /\ input.t = "object"
     /\ \A k \in IntKeys : NoValue(input.f[k]) \/ input.f[k].t = "number"
     /\ RestDecodes(input))
        => result.err = ErrNone

IntegerLiteral(v) == v.t = "number" /\ ~v.dot /\ v.exp10 = 0

InInt32(v) ==
    IF v.neg THEN v.hi < 32768 \/ (v.hi = 32768 /\ v.lo = 0) ELSE v.hi < 32768

\* C10 amended: an integer literal (no fraction, no exponent, within 64 bits)
\* for max_tokens or n never makes the call fail and is narrowed modulo 2^32
\* (a negative max_tokens becomes its value modulo 2^32); a seed is accepted,
\* unchanged, exactly when it is an integer literal within -2^31 .. 2^31-1;
\* a number with a fraction or an exponent for any of the three, and a seed
\* outside the 32-bit range, make the call fail with MalformedInput.
C10_NarrowOrReject ==
    (op = "ParseSamplingParams" /\ input.t = "object") =>
        LET f == input.f
            accepted(k) ==
                \/ NoValue(f[k])
                \/ IntegerLiteral(f[k]) /\ (k = "seed" => InInt32(f[k]))
        IN  /\ (\E k \in IntKeys : ~accepted(k)) => result.err = MalformedInput
            /\ ((\A k \in IntKeys : accepted(k)) /\ RestDecodes(input))
                  => result.err = ErrNone
            /\ result.err = ErrNone =>
                  /\ ~NoValue(f["max_tokens"])
                        => IsLow32Of(result.sp.MaxTokens, f["max_tokens"])
                  /\ ~NoValue(f["n"]) => IsLow32Of(result.sp.N, f["n"])
                  /\ ~NoValue(f["seed"])
                        => result.sp.Seed
                             = GoInt(f["seed"].neg, f["seed"].hi, f["seed"].lo)

\* max_tokens -1 was accepted and became 2^32 - 1 while n 2^32 + 5 became 5.
C10_Witness ==
    /\ Decoded
    /\ input.f["max_tokens"] = JInt(TRUE, 0, 1)
    /\ result.sp.MaxTokens = U32(65535, 65535)
    /\ input.f["n"] = JInt(FALSE, 65536, 5)
    /\ result.sp.N = U32(0, 5)

-----------------------------------------------------------------------------
(* Claims about VLLMGrpcParser.ParseRequest, checked under Spec *)

\* The last call was ParseRequest and it returned a body.
Transcoded == op = "ParseRequest" /\ result.err = ErrNone

\* The GenerateRequest a successful call serialized.
SentRequest == result.body.ParsedBody.proto

HeaderGiven ==
    /\ RequestIdHeaderKey \in DOMAIN input.headers
    /\ input.headers[RequestIdHeaderKey] # ""

\* C1: the request identifier of a transcoded request is never empty: it is
\* the request-ID header's value when the header is there and not empty, and
\* otherwise (the header missing, or there with an empty value) an identifier
\* generated for this call, different from every one generated before.
C1_RequestIdNeverEmpty ==
    Transcoded =>
        /\ SentRequest.RequestId # ""
        /\ HeaderGiven => SentRequest.RequestId = input.headers[RequestIdHeaderKey]
        /\ ~HeaderGiven =>
              /\ SentRequest.RequestId = NewString(uuidCount - 1)
              /\ Cardinality(generated) = uuidCount

\* C4: a body whose stream flag is true never yields a payload, and yields
\* UnsupportedFeature whenever the flag is decoded (the extraction gave a chat
\* completions view and the body's other keys decode, whatever they are);
\* every request that is produced has stream = false.
C4_StreamRejected ==
    op = "ParseRequest" =>
        /\ input.body.f["stream"] = JBool(TRUE) =>
              /\ result.err # ErrNone
              /\ result.body = Nil
              /\ (/\ input.extracted.t = "body"
                  /\ input.extracted.ChatCompletions # Nil
                  /\ ParseSamplingParams(
                        [input.body EXCEPT !.f["stream"] = Absent]).err = ErrNone)
                    => result.err = UnsupportedFeature
        /\ result.err = ErrNone => SentRequest.Stream = FALSE

\* A chat request with stream: true and nothing else was refused.
C4_Witness ==
    /\ op = "ParseRequest"
    /\ input.extracted.t = "body"
    /\ input.extracted.ChatCompletions # Nil
    /\ input.body.f["stream"] = JBool(TRUE)
    /\ result.err = UnsupportedFeature
    /\ result.body = Nil

RECURSIVE Offset(_, _)
\* Where the i-th message's segment starts in the prompt, less one.
Offset(msgs, i) ==
    IF i = 1 THEN 0 ELSE Offset(msgs, i - 1) + Len(msgs[i - 1].Content) + 1

\* C8: with a chat completions view, the prompt is the messages' plain texts
\* in order, each followed by one newline and nothing else (k messages, k
\* segments; no message, the empty prompt); without one the call fails with
\* UnsupportedInput, whatever the body's sampling keys and stream flag are.
C8_CombinedPrompt ==
    (op = "ParseRequest" /\ input.extracted.t = "body") =>
        IF input.extracted.ChatCompletions = Nil
        THEN result.err = UnsupportedInput /\ result.body = Nil
        ELSE /\ result.err # UnsupportedInput
             /\ result.err = ErrNone =>
                  LET msgs == input.extracted.ChatCompletions.Messages
                      text == SentRequest.Input.Text
                  IN  /\ Len(text) = Offset(msgs, Len(msgs) + 1)
                      /\ \A i \in 1..Len(msgs) :
                            /\ SubSeq(text, Offset(msgs, i) + 1,
                                      Offset(msgs, i) + Len(msgs[i].Content))
                                 = msgs[i].Content
                            /\ text[Offset(msgs, i + 1)] = "\n"

\* Two messages, "Hi" and an empty one, gave "Hi\n\n".
C8_Witness ==
    /\ Transcoded
    /\ input.extracted.ChatCompletions.Messages
          = << Message(<< "H", "i" >>), Message(<< >>) >>
    /\ SentRequest.Input.Text = << "H", "i", "\n", "\n" >>

-----------------------------------------------------------------------------
(* Claims about the response side, checked under SpecResp *)

\* C2: when the usage extraction reports no usage, with or without an error,
\* the pass-through parser's ParseResponse and ParseStreamResponse return an
\* error; neither ever returns no ParsedResponse together with no error.
C2_NoUsageIsAnError ==
    /\ op = "OpenAIParser.ParseResponse" =>
          /\ input.extracted.usage = Nil => result.err # ErrNone
          /\ ~(result.resp = Nil /\ result.err = ErrNone)
    /\ op = "OpenAIParser.ParseStreamResponse" =>
          /\ input.responseBody.Usage = Nil => result.err = IncompleteResponse
          /\ ~(result.resp = Nil /\ result.err = ErrNone)

VLLMOps == {"VLLMGrpcParser.ParseResponse", "VLLMGrpcParser.ParseStreamResponse"}

\* C3: in every Usage the transcoding parser returns, TotalTokens is
\* PromptTokens + CompletionTokens, also when the two uint32 counts add up
\* to 2^32 or more.
C3_TotalIsSum ==
    (op \in VLLMOps /\ result.err = ErrNone) =>
        result.resp.Usage.TotalTokens
            = AddInt(result.resp.Usage.PromptTokens,
                     result.resp.Usage.CompletionTokens)

\* The counts a section carries, as the Usage reports them.
ReportsCountsOf(usage, section) ==
    /\ usage.PromptTokens = GoInt(FALSE, section.PromptTokens.hi, section.PromptTokens.lo)
    /\ usage.CompletionTokens
          = GoInt(FALSE, section.CompletionTokens.hi, section.CompletionTokens.lo)

\* C6: what ParseStreamResponse returns is decided by the chunk alone, in
\* every state any sequence of earlier calls leads to: the counts of the
\* terminal section if the chunk has one, else those of its incremental
\* section, else IncompleteResponse; and the unary ParseResponse returns
\* IncompleteResponse without a terminal section, an incremental one or not.
\* The parser itself is never changed.
C6_PerChunkResult ==
    /\ parser = NewVLLMGrpcParser
    /\ (op \in VLLMOps /\ input.t = "message") =>
          IF input.Response = Nil
          THEN result.err = IncompleteResponse /\ result.resp = Nil
          ELSE IF input.Response.kind = "chunk" /\ op = "VLLMGrpcParser.ParseResponse"
          THEN result.err = IncompleteResponse /\ result.resp = Nil
          ELSE /\ result.err = ErrNone
               /\ ReportsCountsOf(result.resp.Usage, input.Response)

\* A stream chunk with an incremental section of 10 and 20 tokens gave them.
C6_Witness ==
    /\ op = "VLLMGrpcParser.ParseStreamResponse"
    /\ input.t = "message"
    /\ input.Response = Section("chunk", U32(0, 10), U32(0, 20))
    /\ result.err = ErrNone
    /\ result.resp.Usage.PromptTokens = GoInt(FALSE, 0, 10)
    /\ result.resp.Usage.CompletionTokens = GoInt(FALSE, 0, 20)

-----------------------------------------------------------------------------
(* The claim about concurrent calls, checked under SpecConc *)

\* What call c returns when it runs alone on its own input (with whichever
\* identifier uuid.NewString gives it).
AloneResults(c) ==
    LET in == calls[c].input
    IN  CASE calls[c].op = "VLLMGrpcParser.ParseRequest" ->
                {ParseRequest(parser, in.headers, in.body, in.extracted,
                              UuidNames[i]) : i \in DOMAIN UuidNames}
          [] calls[c].op = "VLLMGrpcParser.ParseStreamResponse" ->
                {VLLMGrpcParser_ParseStreamResponse(parser, in)}
          [] calls[c].op = "OpenAIParser.ParseRequest" ->
                {OpenAIParser_ParseRequest(NewOpenAIParser, in.headers, in.body,
                                           in.extracted)}

\* C9: however the statements of concurrent calls on one parser interleave,
\* every call returns what it returns when run alone on its own input, two
\* calls never return the same generated identifier, and the parser is
\* never changed.
C9_NoCrossContamination ==
    /\ parser = NewVLLMGrpcParser
    /\ \A c \in CallIds :
          calls[c].pc = "done" => calls[c].result \in AloneResults(c)
    /\ \A c, d \in CallIds :
          (c # d /\ calls[c].fresh # "") => calls[c].fresh # calls[d].fresh

\* Two ParseRequest calls on the parser, with different inputs, both
\* returned a payload, and the payloads differ.
C9_Witness ==
    /\ calls[1].pc = "done" /\ calls[2].pc = "done"
    /\ calls[1].op = "VLLMGrpcParser.ParseRequest"
    /\ calls[2].op = "VLLMGrpcParser.ParseRequest"
    /\ calls[1].input # calls[2].input
    /\ calls[1].result.err = ErrNone /\ calls[2].result.err = ErrNone
    /\ calls[1].result # calls[2].result

=============================================================================
